---- MODULE Spec2Model ----
(***************************************************************************)
(* The wall feed client: the Home component of src/app/page.tsx (its       *)
(* React state, its effect, its handlers) and the gateway functions of     *)
(* src/lib/supabase.js, together with the three services they talk to:     *)
(* the posts table, the "posts" storage bucket and the realtime channel.   *)
(***************************************************************************)
EXTENDS Integers, Sequences, FiniteSets, TLC

(***************************************************************************)
(* Bounds of the model.                                                    *)
(***************************************************************************)
\* submissions that pass handleSubmit's validation
MaxSubmits == 2
\* posts inserted by other clients
MaxOther == 1
\* how far a typed message may exceed MAX_CHARACTERS
MaxOver == 1
\* largest value Date.now() returns
MaxClock == 1

\* page.tsx:14
MAX_CHARACTERS == 280

(***************************************************************************)
(* Values.                                                                 *)
(***************************************************************************)
Rep(c, n) == [i \in 1..n |-> c]

\* a File: its name and its media type "major/minor"
ImageFile == [name |-> "a.png", type |-> <<"image", "png">>]
TextFile == [name |-> "n.txt", type |-> <<"text", "plain">>]
Files == {ImageFile, TextFile}
\* useState<File | null>(null)
NoFile == [name |-> "", type |-> <<>>]
\* useState<string | null>(null) for filePreview
NoPreview == <<>>
\* image_url: string | null
NullUrl == <<>>
\* useState<string | null>(null) for error
NoError == "null"
LoadErrorMsg == "Failed to load posts. Please refresh the page."
UploadErrorMsg == "Failed to upload image. Please try again."
CreateErrorMsg == "Failed to create post. Please try again."

\* what the user can type or paste into the textarea
\* the empty text, a whitespace-only text, a text of exactly MAX_CHARACTERS
\* characters that starts and ends with a space, and longer texts
Messages ==
  { <<>>, <<" ", "\n">>, <<" ">> \o Rep("a", MAX_CHARACTERS - 2) \o <<" ">> }
    \cup { Rep("a", MAX_CHARACTERS + k) : k \in 1..MaxOver }
\* the message of a post written by another client
OtherMessage == <<"y", "o">>

WhiteSpace == {" ", "\n", "\t"}

RECURSIVE TrimStart(_)
\* String.prototype.trimStart
TrimStart(s) ==
  IF s # <<>> /\ Head(s) \in WhiteSpace THEN TrimStart(Tail(s)) ELSE s

RECURSIVE TrimEnd(_)
\* String.prototype.trimEnd
TrimEnd(s) ==
  IF s # <<>> /\ s[Len(s)] \in WhiteSpace
  THEN TrimEnd(SubSeq(s, 1, Len(s) - 1)) ELSE s

\* String.prototype.trim
Trim(s) == TrimEnd(TrimStart(s))

\* file.type.startsWith("image/")
IsImage(f) == f.type # <<>> /\ f.type[1] = "image"

\* reader.result of readAsDataURL(file)
DataUrl(f) == <<"data", f.name>>

\* `${Date.now()}-${selectedFile.name}`
FileNameFor(clk, f) == <<clk, f.name>>

\* supabase.storage.from("posts").getPublicUrl(fileName).data.publicUrl
PublicUrl(fileName) == <<"public", fileName>>

(***************************************************************************)
(* State.                                                                  *)
(***************************************************************************)
VARIABLES
  posts,         \* useState<Post[]>: the feed
  message,       \* useState(""): the draft text
  isSubmitting,  \* useState(false)
  selectedFile,  \* useState<File | null>
  filePreview,   \* useState<string | null>
  error,         \* useState<string | null>
  fetchReq,      \* the SELECT of fetchInitialPosts: its stage and its answer
  sub,           \* postsSubscription: "joining", "open" or "closed"
  channel,       \* INSERT payloads on their way to the realtime client
  store,         \* rows of the posts table, in commit order
  objects,       \* the "posts" bucket: each object's name and, as its
                 \* body, the submission whose upload stored it
  tasks,         \* the handleSubmit invocations that passed validation
  readers,       \* files with a FileReader still reading
  rejected,      \* the early return the latest rejected submit event took:
                 \* "none" so far, "blank" (page.tsx:77) or "tooLong" (:78)
  live           \* ids of the rows committed while the subscription was open

vars ==
  << posts, message, isSubmitting, selectedFile, filePreview, error, fetchReq,
     sub, channel, store, objects, tasks, readers, rejected, live >>

component == << posts, message, isSubmitting, selectedFile, filePreview, error >>
draft == << message, selectedFile, filePreview >>
services == << fetchReq, sub, channel, store, objects, live >>

\* the effect's cleanup has not run
Mounted == sub # "closed"

(***************************************************************************)
(* The posts table and the realtime channel.                               *)
(***************************************************************************)
\* the row the table stores for an INSERT of (message, image_url): id is the
\* auto-increment key and created_at the server clock, both in commit order
NewRow(msg, url) ==
  [id |-> Len(store) + 1, message |-> msg, image_url |-> url,
   created_at |-> Len(store) + 1]

\* INSERT INTO posts ... : the row is committed, and the channel queues its
\* payload for this client when the subscription is joined
Commit(msg, url) ==
  /\ store' = Append(store, NewRow(msg, url))
  /\ channel' = IF sub = "open" THEN Append(channel, NewRow(msg, url))
                ELSE channel
  /\ live' = IF sub = "open" THEN live \cup {NewRow(msg, url).id} ELSE live

RECURSIVE OrderByCreatedAtDesc(_)
\* .select("*").order("created_at", { ascending: false })
OrderByCreatedAtDesc(rows) ==
  IF rows = {} THEN <<>>
  ELSE LET top == CHOOSE r \in rows : \A q \in rows : q.created_at <= r.created_at
       IN <<top>> \o OrderByCreatedAtDesc(rows \ {top})

Rows == {store[i] : i \in 1..Len(store)}

\* another client inserts a post
OtherCommit ==
  /\ Cardinality({r \in Rows : r.message = OtherMessage}) < MaxOther
  /\ Commit(OtherMessage, NullUrl)
  /\ UNCHANGED << component, fetchReq, sub, objects, tasks, readers, rejected >>

(***************************************************************************)
(* useEffect: the initial fetch and the subscription.                      *)
(***************************************************************************)
\* the table answers the SELECT of fetchInitialPosts
FetchExecute(outcome) ==
  /\ fetchReq.st = "sent"
  /\ fetchReq' = IF outcome = "ok"
                 THEN [st |-> "answered", ok |-> TRUE,
                       data |-> OrderByCreatedAtDesc(Rows)]
                 ELSE [st |-> "answered", ok |-> FALSE, data |-> <<>>]
  /\ UNCHANGED << component, sub, channel, store, objects, live, tasks, readers,
                  rejected >>

\* the feed after `if (data) setPosts(data)`: ans.ok says data is not null
FetchedFeed(cur, ans) == IF ans.ok THEN ans.data ELSE cur

\* fetchInitialPosts resumes after its await
FetchReturn ==
  /\ fetchReq.st = "answered"
  /\ fetchReq' = [fetchReq EXCEPT !.st = "done"]
  /\ IF Mounted
     THEN /\ posts' = FetchedFeed(posts, fetchReq)
          /\ error' = IF fetchReq.ok THEN error ELSE LoadErrorMsg
     ELSE UNCHANGED << posts, error >>
  /\ UNCHANGED << message, isSubmitting, selectedFile, filePreview, sub, channel,
                  store, objects, live, tasks, readers, rejected >>

\* .subscribe(): the channel is joined
SubscribeJoined ==
  /\ sub = "joining"
  /\ sub' = "open"
  /\ UNCHANGED << component, fetchReq, channel, store, objects, live, tasks,
                  readers, rejected >>

\* a callback that adds payload.new at the end
OnInsertAppend(cur, row) == cur \o <<row>>

\* the feed after the INSERT callback ran on payload.new
OnInsert(cur, row) == <<row>> \o cur

\* a client that still called the callback after removeChannel
DispatchAfterRelease(cur, row, st) == OnInsert(cur, row)

\* the feed after the realtime client received the INSERT payload row: it
\* calls the callback only while the channel is registered, and
\* removeChannel unregisters it
Dispatch(cur, row, st) == IF st = "open" THEN OnInsert(cur, row) ELSE cur

\* the oldest pending INSERT payload reaches the realtime client
Notify ==
  /\ channel # <<>>
  /\ posts' = Dispatch(posts, Head(channel), sub)
  /\ channel' = Tail(channel)
  /\ UNCHANGED << message, isSubmitting, selectedFile, filePreview, error,
                  fetchReq, sub, store, objects, live, tasks, readers, rejected >>

\* the effect's cleanup: supabase.removeChannel(postsSubscription); the
\* payloads already on their way still arrive
Unmount ==
  /\ Mounted
  /\ sub' = "closed"
  /\ UNCHANGED << component, fetchReq, channel, store, objects, live, tasks,
                  readers, rejected >>

(***************************************************************************)
(* Editing the draft.                                                      *)
(***************************************************************************)
\* an onChange that leaves the error alone
ErrorAfterChangeKept(err) == err

\* the error after the onChange's `if (error) setError(null)`
ErrorAfterChange(err) == IF err # NoError THEN NoError ELSE err

\* the textarea's onChange; the textarea is disabled while isSubmitting
TextChange(v) ==
  /\ Mounted
  /\ ~isSubmitting
  /\ message' = v
  /\ error' = ErrorAfterChange(error)
  /\ UNCHANGED << posts, isSubmitting, selectedFile, filePreview, services,
                  tasks, readers, rejected >>

\* handleFileChange: f is e.target.files?.[0], NoFile when the list is empty;
\* the file input is disabled while isSubmitting
HandleFileChange(f) ==
  /\ Mounted
  /\ ~isSubmitting
  /\ IF f = NoFile
     THEN /\ selectedFile' = NoFile
          /\ filePreview' = NoPreview
          /\ UNCHANGED readers
     ELSE /\ selectedFile' = f
          /\ UNCHANGED filePreview
          /\ readers' = IF IsImage(f) THEN readers \cup {f} ELSE readers
  /\ UNCHANGED << posts, message, isSubmitting, error, services, tasks,
                  rejected >>

\* reader.onloadend: reader.result is a string when the read succeeded
PreviewLoaded(f, ok) ==
  /\ f \in readers
  /\ readers' = readers \ {f}
  /\ filePreview' = IF Mounted /\ ok THEN DataUrl(f) ELSE filePreview
  /\ UNCHANGED << posts, message, isSubmitting, selectedFile, error, services,
                  tasks, rejected >>

\* the preview's "x" button: rendered only while filePreview is set, and
\* disabled while isSubmitting
ClearSelection ==
  /\ Mounted
  /\ ~isSubmitting
  /\ filePreview # NoPreview
  /\ filePreview' = NoPreview
  /\ selectedFile' = NoFile
  /\ UNCHANGED << posts, message, isSubmitting, error, services, tasks,
                  readers, rejected >>

(***************************************************************************)
(* The gateway: src/lib/supabase.js.                                       *)
(***************************************************************************)
\* what the awaited client call can do: resolve with data, resolve with an
\* error object, or reject (the gateway has no try/catch around its await)
Outcomes == {"ok", "error", "throw"}

\* createPost's return value for a resolved insert: { data } or, through
\* handleSupabaseError, { error }
CreatePostResult(res) ==
  IF res = "error" THEN [tag |-> "error"] ELSE [tag |-> "data"]

\* uploadImage's return value for a resolved upload: { error } through
\* handleSupabaseError, or { data: { path, publicURL } }
UploadImageResult(res, fileName) ==
  IF res = "error" THEN [tag |-> "error", publicURL |-> NullUrl]
  ELSE [tag |-> "data", publicURL |-> PublicUrl(fileName)]

\* the names taken in the bucket
ObjectNames == {o.name : o \in objects}

\* an upload with upsert: true
UploadOutcomesUpsert(fileName) == Outcomes

\* storage upload with upsert: false: an existing name cannot be written
UploadOutcomes(fileName) ==
  IF fileName \in ObjectNames THEN Outcomes \ {"ok"} ELSE Outcomes

\* the error the bucket answers an upload with: a name that is taken is
\* refused as a duplicate
UploadError(fileName) ==
  IF fileName \in ObjectNames THEN "Duplicate" ELSE "Other"

\* the bucket once the upload of submission s under fileName is stored
Stored(objs, fileName, s) ==
  {o \in objs : o.name # fileName} \cup {[name |-> fileName, body |-> s]}

\* the gateway has no try/catch: a rejected client call leaves it as an
\* exception, thrown at the caller's await
Escapes(res) == res = "throw"

\* a handler whose setIsSubmitting(false) only follows the form's reset
FinallyAfterResetOnly(exit, cur) == IF exit = "done" THEN FALSE ELSE cur

\* isSubmitting after the finally block, however the try block was left:
\* "done" (ran to its end), "return" (the upload error) or "catch"
Finally(exit, cur) == FALSE

(***************************************************************************)
(* handleSubmit.                                                           *)
(***************************************************************************)
\* handleSubmit without its length check
EarlyReturnNoLimit(msg, file) ==
  IF Trim(msg) = <<>> /\ file = NoFile THEN "blank" ELSE "none"

\* handleSubmit testing !message instead of !message.trim()
EarlyReturnUntrimmed(msg, file) ==
  IF msg = <<>> /\ file = NoFile THEN "blank"
  ELSE IF Len(msg) > MAX_CHARACTERS THEN "tooLong"
  ELSE "none"

\* handleSubmit without its blank check
EarlyReturnNoBlank(msg, file) ==
  IF Len(msg) > MAX_CHARACTERS THEN "tooLong" ELSE "none"

\* the two early returns of handleSubmit: which one it takes, if any
EarlyReturn(msg, file) ==
  IF Trim(msg) = <<>> /\ file = NoFile THEN "blank"
  ELSE IF Len(msg) > MAX_CHARACTERS THEN "tooLong"
  ELSE "none"

\* the submit button's disabled attribute
SubmitDisabled ==
  \/ isSubmitting
  \/ Trim(message) = <<>> /\ selectedFile = NoFile
  \/ Len(message) > MAX_CHARACTERS

\* the countdown shown next to the button
Countdown == MAX_CHARACTERS - Len(message)

\* the argument list of createPost(message, imageUrl)
CreateArgs(msg, url) == [message |-> msg, image_url |-> url]
NoArgs == [message |-> <<>>, image_url |-> <<"no call">>]

\* handleSubmit starting createPost without awaiting uploadImage
NewTaskEager(msg, file, preview, clk) ==
  [message |-> msg, file |-> file, preview |-> preview,
   fileName |-> IF file # NoFile THEN FileNameFor(clk, file) ELSE <<>>,
   imageUrl |-> NullUrl,
   upload |-> IF file # NoFile THEN "sent" ELSE "none", uploadRes |-> "-",
   uploadErr |-> "-", create |-> "sent", createRes |-> "-",
   createArgs |-> CreateArgs(msg, NullUrl)]

\* handleSubmit from setIsSubmitting(true) to its first await.  msg, file and
\* preview are the message, selectedFile and filePreview of the render the
\* handler closes over, clk is Date.now().  Each gateway call is "none" (not
\* made), "sent", "answered" or "returned".
NewTask(msg, file, preview, clk) ==
  IF file # NoFile
  THEN [message |-> msg, file |-> file, preview |-> preview,
        fileName |-> FileNameFor(clk, file), imageUrl |-> NullUrl,
        upload |-> "sent", uploadRes |-> "-", uploadErr |-> "-",
        create |-> "none", createRes |-> "-", createArgs |-> NoArgs]
  ELSE [message |-> msg, file |-> file, preview |-> preview,
        fileName |-> <<>>, imageUrl |-> NullUrl,
        upload |-> "none", uploadRes |-> "-", uploadErr |-> "-",
        create |-> "sent", createRes |-> "-",
        createArgs |-> CreateArgs(msg, NullUrl)]

\* the form's onSubmit; clk is what Date.now() returns
HandleSubmit(clk) ==
  /\ Mounted
  /\ IF EarlyReturn(message, selectedFile) # "none"
     THEN /\ rejected' = EarlyReturn(message, selectedFile)
          /\ UNCHANGED << component, tasks >>
     ELSE /\ Len(tasks) < MaxSubmits
          /\ isSubmitting' = TRUE
          /\ error' = NoError
          /\ tasks' = Append(tasks,
                             NewTask(message, selectedFile, filePreview, clk))
          /\ UNCHANGED << posts, message, selectedFile, filePreview, rejected >>
  /\ UNCHANGED << services, readers >>

\* the bucket answers the upload of submission s
UploadExecute(s, outcome) ==
  /\ s \in 1..Len(tasks)
  /\ tasks[s].upload = "sent"
  /\ outcome \in UploadOutcomes(tasks[s].fileName)
  /\ tasks' = [tasks EXCEPT
                 ![s].upload = "answered", ![s].uploadRes = outcome,
                 ![s].uploadErr = IF outcome = "error"
                                  THEN UploadError(tasks[s].fileName) ELSE "-"]
  /\ objects' = IF outcome = "ok" THEN Stored(objects, tasks[s].fileName, s)
                ELSE objects
  /\ UNCHANGED << component, fetchReq, sub, channel, store, live, readers,
                  rejected >>

\* handleSubmit has returned: what its closure and its locals held is gone,
\* what its gateway calls came to stays on record
Returned(t) ==
  [t EXCEPT !.message = <<>>, !.file = NoFile, !.preview = NoPreview,
            !.fileName = <<>>, !.imageUrl = NullUrl, !.uploadErr = "-",
            !.createArgs = NoArgs]

\* handleSubmit without its `"error" in result` check
AfterUploadUnchecked(t, result) ==
  [t EXCEPT !.upload = "returned", !.imageUrl = result.publicURL,
            !.create = "sent",
            !.createArgs = CreateArgs(t.message, result.publicURL)]

\* the submission once uploadImage has returned result: it goes on to
\* createPost, unless "error" in result
AfterUpload(t, result) ==
  IF result.tag = "error"
  THEN Returned([t EXCEPT !.upload = "returned"])
  ELSE [t EXCEPT !.upload = "returned", !.imageUrl = result.publicURL,
                 !.create = "sent",
                 !.createArgs = CreateArgs(t.message, result.publicURL)]

\* handleSubmit resumes after await uploadImage(...)
UploadReturn(s) ==
  /\ s \in 1..Len(tasks)
  /\ tasks[s].upload = "answered"
  /\ IF Escapes(tasks[s].uploadRes)
     THEN \* catch, finally
          /\ tasks' = [tasks EXCEPT
                         ![s] = Returned([tasks[s] EXCEPT !.upload = "returned"])]
          /\ IF Mounted
             THEN /\ error' = CreateErrorMsg
                  /\ isSubmitting' = Finally("catch", isSubmitting)
             ELSE UNCHANGED << error, isSubmitting >>
     ELSE LET result == UploadImageResult(tasks[s].uploadRes, tasks[s].fileName)
          IN /\ tasks' = [tasks EXCEPT ![s] = AfterUpload(tasks[s], result)]
             /\ IF Mounted /\ result.tag = "error"
                THEN \* setError, return, finally
                     /\ error' = UploadErrorMsg
                     /\ isSubmitting' = Finally("return", isSubmitting)
                ELSE UNCHANGED << error, isSubmitting >>
  /\ UNCHANGED << posts, message, selectedFile, filePreview, services, readers,
                  rejected >>

\* the table answers the insert of submission s
CreateExecute(s, outcome) ==
  /\ s \in 1..Len(tasks)
  /\ tasks[s].create = "sent"
  /\ tasks' = [tasks EXCEPT ![s].create = "answered", ![s].createRes = outcome]
  /\ IF outcome = "ok"
     THEN Commit(tasks[s].createArgs.message, tasks[s].createArgs.image_url)
     ELSE UNCHANGED << store, channel, live >>
  /\ UNCHANGED << component, fetchReq, sub, objects, readers, rejected >>

\* the reset without setMessage("")
ClearedDraftKeepingMessage ==
  [message |-> message, selectedFile |-> NoFile, filePreview |-> NoPreview]

\* the draft after setMessage(""), setSelectedFile(null), setFilePreview(null)
ClearedDraft ==
  [message |-> <<>>, selectedFile |-> NoFile, filePreview |-> NoPreview]

\* a handler that shows the post it created without waiting for the channel
SubmittedFeedOptimistic(cur, args) ==
  << [id |-> 0, message |-> args.message, image_url |-> args.image_url,
      created_at |-> 0] >> \o cur

\* the feed after handleSubmit's reset of the form, args being what it gave
\* createPost: the handler has no setPosts
SubmittedFeed(cur, args) == cur

\* handleSubmit resumes after await createPost(...): the value createPost
\* returned is not looked at; only a rejection reaches the catch
CreateReturn(s) ==
  /\ s \in 1..Len(tasks)
  /\ tasks[s].create = "answered"
  /\ tasks' = [tasks EXCEPT
                 ![s] = Returned([tasks[s] EXCEPT !.create = "returned"])]
  /\ IF ~Mounted
     THEN UNCHANGED << posts, draft, error, isSubmitting >>
     ELSE IF Escapes(tasks[s].createRes)
     THEN \* catch, finally
          /\ error' = CreateErrorMsg
          /\ isSubmitting' = Finally("catch", isSubmitting)
          /\ UNCHANGED << posts, draft >>
     ELSE \* the form is reset, finally
          /\ message' = ClearedDraft.message
          /\ selectedFile' = ClearedDraft.selectedFile
          /\ filePreview' = ClearedDraft.filePreview
          /\ isSubmitting' = Finally("done", isSubmitting)
          /\ posts' = SubmittedFeed(posts, tasks[s].createArgs)
          /\ UNCHANGED error
  /\ UNCHANGED << services, readers, rejected >>

(***************************************************************************)
(* The specifications.                                                     *)
(***************************************************************************)
Init ==
  /\ posts = <<>>
  /\ message = <<>>
  /\ isSubmitting = FALSE
  /\ selectedFile = NoFile
  /\ filePreview = NoPreview
  /\ error = NoError
  /\ fetchReq = [st |-> "sent", ok |-> FALSE, data |-> <<>>]
  /\ sub = "joining"
  /\ channel = <<>>
  /\ store = <<>>
  /\ objects = {}
  /\ tasks = <<>>
  /\ readers = {}
  /\ rejected = "none"
  /\ live = {}

\* a session in which the user attaches no file: the fetch, the subscription,
\* other clients, typing and text-only submissions
FeedNext ==
  \/ OtherCommit
  \/ \E outcome \in {"ok", "error"} : FetchExecute(outcome)
  \/ FetchReturn
  \/ SubscribeJoined
  \/ Notify
  \/ Unmount
  \/ \E v \in Messages : TextChange(v)
  \/ \E clk \in 0..MaxClock : HandleSubmit(clk)
  \/ \E s \in 1..MaxSubmits, outcome \in Outcomes : CreateExecute(s, outcome)
  \/ \E s \in 1..MaxSubmits : CreateReturn(s)

\* a session that stays mounted while the fetch is outstanding, the channel
\* is still joining and nobody else posts: the draft and its submissions
DraftNext ==
  \/ \E v \in Messages : TextChange(v)
  \/ \E f \in Files \cup {NoFile} : HandleFileChange(f)
  \/ \E f \in Files, ok \in BOOLEAN : PreviewLoaded(f, ok)
  \/ ClearSelection
  \/ \E clk \in 0..MaxClock : HandleSubmit(clk)
  \/ \E s \in 1..MaxSubmits, outcome \in Outcomes : UploadExecute(s, outcome)
  \/ \E s \in 1..MaxSubmits : UploadReturn(s)
  \/ \E s \in 1..MaxSubmits, outcome \in Outcomes : CreateExecute(s, outcome)
  \/ \E s \in 1..MaxSubmits : CreateReturn(s)

\* every handler and every service
Next == FeedNext \/ DraftNext

Spec == Init /\ [][Next]_vars
SpecFeed == Init /\ [][FeedNext]_vars
SpecDraft == Init /\ [][DraftNext]_vars

\* every gateway call that was made is answered, and the handler awaiting it
\* is resumed
GatewayCallsReturn ==
  \A s \in 1..MaxSubmits :
    /\ WF_vars(\E outcome \in Outcomes : UploadExecute(s, outcome))
    /\ WF_vars(UploadReturn(s))
    /\ WF_vars(\E outcome \in Outcomes : CreateExecute(s, outcome))
    /\ WF_vars(CreateReturn(s))

\* a session of submissions alone: the draft is typed, a file is attached,
\* and the form is submitted; no preview is read and nothing is cleared by
\* hand
SubmitNext ==
  \/ \E v \in Messages : TextChange(v)
  \/ \E f \in Files \cup {NoFile} : HandleFileChange(f)
  \/ \E clk \in 0..MaxClock : HandleSubmit(clk)
  \/ \E s \in 1..MaxSubmits, outcome \in Outcomes : UploadExecute(s, outcome)
  \/ \E s \in 1..MaxSubmits : UploadReturn(s)
  \/ \E s \in 1..MaxSubmits, outcome \in Outcomes : CreateExecute(s, outcome)
  \/ \E s \in 1..MaxSubmits : CreateReturn(s)

SpecSubmitFair == Init /\ [][SubmitNext]_vars /\ GatewayCallsReturn

(***************************************************************************)
(* The claims.                                                             *)
(***************************************************************************)
\* a step of the form's onSubmit handler
SubmitEvent == \E clk \in 0..MaxClock : HandleSubmit(clk)

\* a gateway call of submission t is outstanding
InFlight(t) ==
  t.upload \in {"sent", "answered"} \/ t.create \in {"sent", "answered"}

InFeed(feed, id) == \E i \in 1..Len(feed) : feed[i].id = id

WhitespaceOnly == <<" ", "\n">>

\* C1: in every reachable state the feed holds at most one entry per post id,
\* whatever the interleaving of the fetch result, the live inserts and the
\* submissions.
C1_OneEntryPerId ==
  \A i, j \in 1..Len(posts) : posts[i].id = posts[j].id => i = j

\* C2: in every reachable state the feed is newest-first: no post stands
\* after a post with a smaller created_at.
C2_NewestFirst ==
  \A i, j \in 1..Len(posts) :
    i < j => posts[i].created_at >= posts[j].created_at

\* C3: a submit event on a draft whose message is empty or whitespace-only
\* and that has no file makes no gateway call and leaves the feed, the draft,
\* isSubmitting and error as they were.
C3_BlankSubmitIsNoOp ==
  [][ (SubmitEvent /\ Trim(message) = <<>> /\ selectedFile = NoFile)
        => UNCHANGED << posts, message, selectedFile, filePreview,
                        isSubmitting, error, tasks, store, objects >> ]_vars

\* C3's case: a whitespace-only draft without a file on which handleSubmit
\* has taken its first early return, with a feed and an error to keep
C3_Witness ==
  /\ rejected = "blank"
  /\ message = WhitespaceOnly
  /\ selectedFile = NoFile
  /\ posts # <<>>
  /\ error = LoadErrorMsg

\* C4: a submit event on a message longer than MAX_CHARACTERS makes no
\* gateway call and changes nothing, with or without a file; the button is
\* disabled whenever the countdown is negative; and a message of exactly
\* MAX_CHARACTERS characters (not blank, or with a file) is accepted.
C4_OverLimitIsRejected ==
  [][ /\ (Countdown < 0 => SubmitDisabled)
      /\ (Countdown' < 0 => SubmitDisabled')
      /\ (SubmitEvent /\ Len(message) > MAX_CHARACTERS)
           => UNCHANGED << component, tasks, store, objects >>
      /\ ( /\ SubmitEvent
           /\ Len(message) = MAX_CHARACTERS
           /\ (Trim(message) # <<>> \/ selectedFile # NoFile) )
           => /\ Len(tasks') = Len(tasks) + 1
              /\ tasks'[Len(tasks')].message = message ]_vars

\* C4's case: handleSubmit has taken its second early return, and the draft
\* is over the limit with a file selected
C4_Witness ==
  /\ rejected = "tooLong"
  /\ Len(message) = MAX_CHARACTERS + 1
  /\ selectedFile # NoFile
  /\ tasks = <<>>

\* the step in which handleSubmit resumes with uploadImage's { error }
UploadFailureStep(s) ==
  /\ Mounted
  /\ tasks[s].upload = "answered"
  /\ tasks[s].uploadRes = "error"
  /\ tasks'[s].upload = "returned"

C6_WriteErrorKeepsDraft ==
  [][ \A s \in 1..Len(tasks) :
        ( /\ Mounted
          /\ tasks[s].create = "answered"
          /\ tasks[s].createRes = "error"
          /\ tasks'[s].create = "returned" )
        => /\ error' = CreateErrorMsg
           /\ isSubmitting' = FALSE
           /\ UNCHANGED draft ]_vars

\* C7: an accepted submission without a file calls createPost once, with the
\* draft's message and a null image URL, and never uploadImage; when that
\* createPost succeeds the message, the file and the preview are cleared and
\* isSubmitting is false.
C7_TextOnlySubmission ==
  [][ /\ (SubmitEvent /\ selectedFile = NoFile /\ Len(tasks') > Len(tasks))
           => LET t == tasks'[Len(tasks')]
              IN /\ t.upload = "none"
                 /\ t.create = "sent"
                 /\ t.createArgs = CreateArgs(message, NullUrl)
      /\ \A s \in 1..Len(tasks) :
           tasks[s].upload = "none"
           => /\ tasks'[s].upload = "none"
              /\ tasks[s].create # "sent" => tasks'[s].create # "sent"
              /\ tasks'[s].create \in {"sent", "answered"}
                   => tasks'[s].createArgs = tasks[s].createArgs
              /\ ( /\ Mounted
                   /\ tasks[s].create = "answered"
                   /\ tasks[s].createRes = "ok"
                   /\ tasks'[s].create = "returned" )
                   => /\ message' = <<>>
                      /\ selectedFile' = NoFile
                      /\ filePreview' = NoPreview
                      /\ isSubmitting' = FALSE ]_vars

\* C7's case: a submission without a file has gone through createPost, its
\* row is in the table, and the form is reset
C7_Witness ==
  /\ \E s \in 1..Len(tasks) :
       /\ tasks[s].upload = "none"
       /\ tasks[s].create = "returned"
       /\ tasks[s].createRes = "ok"
  /\ \E r \in Rows : r.image_url = NullUrl /\ Trim(r.message) # <<>>
  /\ message = <<>>
  /\ selectedFile = NoFile
  /\ filePreview = NoPreview
  /\ ~isSubmitting

\* C8 (that a post in the feed stays there): a post committed while the
\* subscription was open, once in the feed, is in the feed after every step.
C8_LivePostStaysInFeed ==
  [][ \A id \in live : InFeed(posts, id) => InFeed(posts', id) ]_vars

\* C9: at most one submission is in flight, and the submit button is
\* disabled while one is.
C9_OneSubmissionInFlight ==
  /\ Cardinality({s \in 1..Len(tasks) : InFlight(tasks[s])}) <= 1
  /\ (\E s \in 1..Len(tasks) : InFlight(tasks[s])) => SubmitDisabled

\* C10: within a submission createPost is pending only once uploadImage has
\* returned successfully, with the public URL of the uploaded object, or,
\* without a file, with no upload at all and a null URL; the two calls are
\* never pending together.
C10_UploadThenCreate ==
  \A s \in 1..Len(tasks) :
    LET t == tasks[s]
    IN /\ ~(t.upload \in {"sent", "answered"} /\ t.create \in {"sent", "answered"})
       /\ t.create \in {"sent", "answered"}
            => IF t.file # NoFile
               THEN /\ t.upload = "returned"
                    /\ t.uploadRes = "ok"
                    /\ t.fileName \in ObjectNames
                    /\ t.createArgs.image_url = PublicUrl(t.fileName)
               ELSE /\ t.upload = "none"
                    /\ t.createArgs.image_url = NullUrl

\* C10's case: createPost is pending with the URL of a finished upload
C10_Witness ==
  \E s \in 1..Len(tasks) :
    /\ tasks[s].file # NoFile
    /\ tasks[s].uploadRes = "ok"
    /\ tasks[s].create = "sent"
    /\ tasks[s].createArgs.image_url = PublicUrl(tasks[s].fileName)

\* the step in which fetchInitialPosts resumes with the table's answer
FetchResultStep ==
  Mounted /\ fetchReq.st = "answered" /\ fetchReq'.st = "done"

\* C11: when the initial SELECT succeeds the feed becomes its result, whatever
\* it held; when it fails the load error is shown and the feed is empty.
C11_FetchSetsFeedOrLoadError ==
  [][ FetchResultStep
      => IF fetchReq.ok
         THEN posts' = fetchReq.data /\ error' = error
         ELSE error' = LoadErrorMsg /\ posts' = <<>> ]_vars

\* C12: once the initial fetch has failed, the load error stays shown and the
\* feed stays empty, whatever the user types or submits, and the fetch is not
\* sent again.
C12_LoadErrorPersists ==
  [][ (Mounted /\ fetchReq.st = "done" /\ ~fetchReq.ok /\ error = LoadErrorMsg)
      => /\ error' = LoadErrorMsg
         /\ posts = <<>> => posts' = <<>>
         /\ fetchReq' = fetchReq ]_vars

\* C13: once the effect's cleanup has released the subscription no step
\* changes the feed; in particular an INSERT payload that arrives after the
\* release leaves it as it is.
C13_NoNotificationAfterRelease ==
  [][ sub = "closed" => posts' = posts ]_vars

\* C13's case: the subscription is released, every payload has arrived, and
\* a row committed while the subscription was open is missing from a feed
\* that only the callback ever wrote: its payload came after the release
C13_Witness ==
  /\ sub = "closed"
  /\ channel = <<>>
  /\ fetchReq.st = "sent"
  /\ posts # <<>>
  /\ \E id \in live : ~InFeed(posts, id)

\* the Post constraint on message: at most MAX_CHARACTERS characters, and
\* empty or whitespace-only only with an image
ValidPost(msg, url) ==
  /\ Len(msg) <= MAX_CHARACTERS
  /\ Trim(msg) = <<>> => url # NullUrl

\* C14: every createPost call of a submission carries a message of at most
\* MAX_CHARACTERS characters, blank only together with an image URL, and so
\* does every row the submissions put in the table.
C14_CreatePostMessageValid ==
  /\ \A s \in 1..Len(tasks) :
       tasks[s].create \in {"sent", "answered"}
       => ValidPost(tasks[s].createArgs.message, tasks[s].createArgs.image_url)
  /\ \A r \in Rows : ValidPost(r.message, r.image_url)

\* C14's case: the table holds a post with a whitespace-only message and an
\* image, and a post of exactly MAX_CHARACTERS characters
C14_Witness ==
  /\ \E r \in Rows : r.message = WhitespaceOnly /\ r.image_url # NullUrl
  /\ \E r \in Rows : Len(r.message) = MAX_CHARACTERS

\* C15: the preview belongs to the current selection: without a selected
\* file there is no preview, and a preview that is shown is the data URL of
\* the selected file.
C15_PreviewOfSelectedFile ==
  /\ selectedFile = NoFile => filePreview = NoPreview
  /\ filePreview # NoPreview => filePreview = DataUrl(selectedFile)

\* C16: a submission with a gateway call outstanding comes to a state where
\* it has none and isSubmitting is false, whatever its calls answer; and
\* isSubmitting is true only while some submission has a call outstanding.
C16_SubmissionEnds ==
  /\ \A s \in 1..MaxSubmits :
       (s <= Len(tasks) /\ InFlight(tasks[s]))
         ~> (s <= Len(tasks) /\ ~InFlight(tasks[s]) /\ ~isSubmitting)
  /\ [](isSubmitting => \E s \in 1..Len(tasks) : InFlight(tasks[s]))

\* C16's case: one submission ended in the catch block, another at the
\* upload error, and the form is ready again
C16_Witness ==
  /\ \E s \in 1..Len(tasks) :
       tasks[s].create = "returned" /\ tasks[s].createRes = "throw"
  /\ \E s \in 1..Len(tasks) :
       tasks[s].upload = "returned" /\ tasks[s].uploadRes = "error"
  /\ \A s \in 1..Len(tasks) : ~InFlight(tasks[s])
  /\ ~isSubmitting
  /\ ~SubmitDisabled

\* a step of the textarea's onChange handler
TextChangeEvent == \E v \in Messages : TextChange(v)

\* C17: an onChange of the textarea while the upload error or the create
\* error is shown clears it; an accepted submit event clears the error in the
\* step that starts the submission, before any of its gateway calls is
\* answered; a rejected submit event leaves the error as it is.
C17_ErrorCleared ==
  [][ /\ (TextChangeEvent /\ error \in {UploadErrorMsg, CreateErrorMsg})
           => error' = NoError
      /\ (SubmitEvent /\ Len(tasks') > Len(tasks))
           => /\ error' = NoError
              /\ tasks'[Len(tasks')].upload \in {"none", "sent"}
              /\ tasks'[Len(tasks')].create \in {"none", "sent"}
      /\ ( /\ SubmitEvent
           /\ \/ Trim(message) = <<>> /\ selectedFile = NoFile
              \/ Len(message) > MAX_CHARACTERS )
           => error' = error ]_vars

\* C17's case: the only submission so far failed at its upload, and the
\* error it showed is gone without a second submission: the user has typed
C17_Witness ==
  /\ Len(tasks) = 1
  /\ tasks[1].upload = "returned"
  /\ tasks[1].uploadRes = "error"
  /\ ~isSubmitting
  /\ message # <<>>
  /\ error = NoError

\* C18: every gateway call of a submission ends by returning a value, a
\* success or a structured failure, whatever the client call underneath
\* does: none ends with an exception at the caller's await.
C18_GatewayNeverThrows ==
  \A s \in 1..Len(tasks) :
    /\ tasks[s].upload \in {"answered", "returned"}
         => /\ ~Escapes(tasks[s].uploadRes)
            /\ UploadImageResult(tasks[s].uploadRes, tasks[s].fileName).tag
                 \in {"data", "error"}
    /\ tasks[s].create \in {"answered", "returned"}
         => /\ ~Escapes(tasks[s].createRes)
            /\ CreatePostResult(tasks[s].createRes).tag \in {"data", "error"}

\* the step in which the bucket answers the upload of submission s
UploadAnswerStep(s) ==
  tasks[s].upload = "sent" /\ tasks'[s].upload = "answered"

\* C19: an upload under a name the bucket already holds does not succeed:
\* the bucket refuses it as a duplicate and every stored object stays as it
\* is; so each name is stored once, and of the submissions that derive the
\* same name one at most has a successful upload.
C19_NoOverwrite ==
  [][ /\ \A o \in objects : o \in objects'
      /\ \A s \in 1..Len(tasks) :
           (UploadAnswerStep(s) /\ tasks[s].fileName \in ObjectNames)
           => /\ tasks'[s].uploadRes # "ok"
              /\ tasks'[s].uploadRes = "error"
                   => tasks'[s].uploadErr = "Duplicate"
              /\ objects' = objects
      /\ \A o1, o2 \in objects' : o1.name = o2.name => o1 = o2
      /\ Cardinality({s \in 1..Len(tasks') : tasks'[s].uploadRes = "ok"})
           = Cardinality(objects') ]_vars

\* C19's case: a submission's upload was refused as a duplicate of the
\* object another submission stored under the same name
C19_Witness ==
  \E s \in 1..Len(tasks) :
    /\ tasks[s].upload = "answered"
    /\ tasks[s].uploadErr = "Duplicate"
    /\ \E o \in objects : o.name = tasks[s].fileName /\ o.body # s

\* C20: once fetchInitialPosts has handled the table's answer, a step that
\* changes the feed puts one post at its head and keeps the rest: the feed it
\* had is the tail of the feed it has.
C20_PrependOnlyAfterFetch ==
  [][ (fetchReq.st = "done" /\ posts' # posts)
      => /\ Len(posts') = Len(posts) + 1
         /\ Tail(posts') = posts ]_vars

\* C20's case: the fetch result was applied to the feed, and posts have been
\* put in front of it since
C20_Witness ==
  /\ fetchReq.st = "done"
  /\ fetchReq.ok
  /\ fetchReq.data # <<>>
  /\ Len(posts) > Len(fetchReq.data)
  /\ SubSeq(posts, Len(posts) - Len(fetchReq.data) + 1, Len(posts))
       = fetchReq.data

\* a step of handleSubmit: the submit event, or the handler resuming after
\* one of its awaits
HandlerStep ==
  \/ SubmitEvent
  \/ \E s \in 1..Len(tasks) : UploadReturn(s) \/ CreateReturn(s)

\* C21: no step of handleSubmit changes the feed, whether the submission is
\* rejected, fails or succeeds; the feed changes only when the client
\* receives an INSERT payload or fetchInitialPosts handles its answer.
C21_SubmitLeavesFeed ==
  [][ /\ HandlerStep => posts' = posts
      /\ posts' # posts
           => \/ channel # <<>> /\ channel' = Tail(channel)
              \/ FetchResultStep ]_vars

\* C21's case: a submission has ended successfully and its row is in the
\* table but not in the feed, which holds another client's post
C21_Witness ==
  /\ \E s \in 1..Len(tasks) :
       tasks[s].create = "returned" /\ tasks[s].createRes = "ok"
  /\ \E r \in Rows : r.message # OtherMessage /\ ~InFeed(posts, r.id)
  /\ \A i \in 1..Len(posts) : posts[i].message = OtherMessage
  /\ posts # <<>>
  /\ Mounted

\* the step in which handleSubmit resumes after createPost and resets the form
ResetStep(s) ==
  /\ Mounted
  /\ tasks[s].create = "answered"
  /\ ~Escapes(tasks[s].createRes)
  /\ tasks'[s].create = "returned"

\* C22: while a submission has a gateway call outstanding, the message and
\* the selected file change only when a handler resets the form; and the
\* message and the file a reset clears are the ones its submission was
\* started with.
C22_DraftFrozenInFlight ==
  [][ \A s \in 1..Len(tasks) :
        /\ (InFlight(tasks[s]) /\ ~\E q \in 1..Len(tasks) : ResetStep(q))
             => message' = message /\ selectedFile' = selectedFile
        /\ ResetStep(s)
             => message = tasks[s].message /\ selectedFile = tasks[s].file
      ]_vars

====
